---- MODULE Spec2Model ----
(***************************************************************************)
(* Express blog with file-based auth and storage (server.js).              *)
(*                                                                         *)
(* State: the three JSON collections under data/ (admins.json, users.json, *)
(* blogs.json), the server-held session of each browser client, the latest *)
(* reading of the wall clock, the response to the most recent request, and *)
(* per client the request whose writeJSON("blogs.json") has not landed yet. *)
(*                                                                         *)
(* Values.  A request field that may be missing (req.body.x) is an option: *)
(* None is JavaScript's undefined, Some(v) a present value.  An e-mail     *)
(* string is the sequence of its "@"-separated parts, so that              *)
(* email.split("@")[0] is its head; the empty string is <<"">>.  A title   *)
(* or content string is the sequence of its characters, " " being white    *)
(* space.  Names and passwords are atomic strings.                         *)
(***************************************************************************)
EXTENDS Integers, Sequences, FiniteSets, TLC

VARIABLES admins, users, posts, session, now, last, inflight

vars == <<admins, users, posts, session, now, last, inflight>>

\* the browser clients holding a session cookie
Clients == {"c1", "c2"}

(* ------------------------------ values -------------------------------- *)

None == <<>>
Some(v) == <<v>>

EmptyEmail == <<"">>
AdminMail == <<"admin", "example.com">>
RootMail == <<"root", "x.com">>
AliceMail == <<"alice", "x.com">>
AliceCaps == <<"Alice", "x.com">>
BobMail == <<"bob", "x.com">>

\* typeof v === "string" for a request field
IsString(f) == f # None

\* JavaScript truthiness of an optional atomic string / e-mail / text
TruthyStr(f) == f # None /\ f[1] # ""
TruthyEmail(f) == f # None /\ f[1] # EmptyEmail

Range(s) == {s[i] : i \in DOMAIN s}

(* ------------------------------ bcryptjs ------------------------------ *)

\* a password of exactly 72 bytes, and two that go on after it
Pw72 == "<72 bytes>"
Pw72x == "<72 bytes>x"
Pw72y == "<72 bytes>y"

\* bcrypt keys the cipher with the first 72 bytes of the password; what comes
\* after them is not read
First72(s) == IF s \in {Pw72x, Pw72y} THEN Pw72 ELSE s

\* bcrypt.hash(s, 10): "$2a$10$" ++ salt ++ digest of (salt, first 72 bytes of s)
BcryptHash(s, salt) == <<"$2a$10$", salt, First72(s)>>

\* bcrypt.compare(s, hash) for a string s: false for a malformed hash,
\* otherwise re-hash s with the salt of hash and compare
BcryptCompare(s, hash) == Len(hash) = 3 /\ BcryptHash(s, hash[2]) = hash

\* password_hash unset ("" or missing): !admin.password_hash
NoHash == <<>>

(* ------------------------------ dates --------------------------------- *)

\* new Date().toISOString() at clock value t, and new Date(iso) back
ToISOString(t) == <<"ISO-8601", t>>
DateParse(iso) == iso[2]

(* ------------------------------ strings ------------------------------- *)

\* String.prototype.trim on a character sequence
RECURSIVE TrimStart(_)
TrimStart(s) == IF s # <<>> /\ Head(s) = " " THEN TrimStart(Tail(s)) ELSE s

RECURSIVE TrimEnd(_)
TrimEnd(s) ==
    IF s # <<>> /\ s[Len(s)] = " " THEN TrimEnd(SubSeq(s, 1, Len(s) - 1)) ELSE s

Trim(s) == TrimEnd(TrimStart(s))

Untitled == <<"(untitled)">>

\* a title that is not trimmed: title || "(untitled)"
PostTitleUntrimmed(title) ==
    IF title # None /\ title[1] # <<>> THEN title[1] ELSE Untitled

\* title?.trim() || "(untitled)"
PostTitle(title) ==
    IF title # None /\ Trim(title[1]) # <<>> THEN Trim(title[1]) ELSE Untitled

\* content?.trim() || ""
PostContent(content) == IF content # None THEN Trim(content[1]) ELSE <<>>

(* ------------------------------ arrays -------------------------------- *)

\* index of the first record of list whose email === the request field, 0 if none
\* (Array.prototype.find / findIndex with (a) => a.email === email)
FindByEmail(list, email) ==
    IF \E i \in DOMAIN list : Some(list[i].email) = email
    THEN CHOOSE i \in DOMAIN list :
            /\ Some(list[i].email) = email
            /\ \A j \in 1..(i - 1) : Some(list[j].email) # email
    ELSE 0

\* a lookup that falls back on the first post when no post has the id
FindByIdOrFirst(ps, id) ==
    IF \E i \in DOMAIN ps : ps[i].id = id
    THEN CHOOSE i \in DOMAIN ps :
            ps[i].id = id /\ \A j \in 1..(i - 1) : ps[j].id # id
    ELSE IF ps # <<>> THEN 1 ELSE 0

\* posts.findIndex((p) => p.id === id), 0 for -1
FindById(ps, id) ==
    IF \E i \in DOMAIN ps : ps[i].id = id
    THEN CHOOSE i \in DOMAIN ps :
            ps[i].id = id /\ \A j \in 1..(i - 1) : ps[j].id # id
    ELSE 0

\* a filter that keeps u and drops the others: arr.filter((e) => e === u)
WithoutOthers(arr, u) == SelectSeq(arr, LAMBDA e : e = u)

\* arr.filter((e) => e !== u)
Without(arr, u) == SelectSeq(arr, LAMBDA e : e # u)

\* arr.includes(u)
Includes(arr, u) == \E i \in DOMAIN arr : arr[i] = u

\* posts.splice(idx): without a count, the rest of the array goes too
SpliceRest(ps, idx) == SubSeq(ps, 1, idx - 1)

\* posts.splice(idx, 1)
Splice(ps, idx) == SubSeq(ps, 1, idx - 1) \o SubSeq(ps, idx + 1, Len(ps))

\* Array.prototype.sort with (a, b) => new Date(b.createdAt) - new Date(a.createdAt):
\* a stable sort, newest first; x enters behind every element not older than it
RECURSIVE InsertByDate(_, _)
InsertByDate(sorted, x) ==
    IF sorted = <<>> THEN <<x>>
    ELSE IF DateParse(Head(sorted).createdAt) - DateParse(x.createdAt) >= 0
         THEN <<Head(sorted)>> \o InsertByDate(Tail(sorted), x)
         ELSE <<x>> \o sorted

RECURSIVE SortNewestFirst(_)
SortNewestFirst(ps) ==
    IF ps = <<>> THEN <<>>
    ELSE InsertByDate(SortNewestFirst(SubSeq(ps, 1, Len(ps) - 1)), ps[Len(ps)])

(* ------------------------------ auth helpers -------------------------- *)

\* isLoggedIn(req): !!req.session.user
isLoggedIn(c) == session[c] # None

\* isAdmin(req)
isAdmin(c) == isLoggedIn(c) /\ session[c][1].role = "admin"

(* ------------------------------ responses ----------------------------- *)

\* the latest request and its response: the route, the e-mail of the session it
\* came with (who), its body (req) and :id, the outcome, and the payload (the
\* rendered posts of GET /, the JSON of GET /me).  pre is the requester's reaction on post :id
\* before a like/dislike; prior is the pre of the request just before it when
\* that was the same successful toggle by the same account on the same :id.
Who(c) == IF session[c] = None THEN None ELSE Some(session[c][1].email)

Response(op, c, req, id, status, pre, prior, body) ==
    [op |-> op, who |-> Who(c), req |-> req, id |-> id, status |-> status,
     pre |-> pre, prior |-> prior, body |-> body]

Plain(op, c, req, status) == Response(op, c, req, "", status, "-", "-", <<>>)

\* the requester's reaction on the first post with this id
Reaction(ps, id, u) ==
    LET idx == FindById(ps, id) IN
    IF idx = 0 THEN "-"
    ELSE IF Includes(ps[idx].likes, u) /\ Includes(ps[idx].dislikes, u) THEN "both"
    ELSE IF Includes(ps[idx].likes, u) THEN "liked"
    ELSE IF Includes(ps[idx].dislikes, u) THEN "disliked"
    ELSE "none"

Prior(op, c, id) ==
    IF last.op = op /\ last.status = "OK" /\ last.who = Who(c) /\ last.id = id
    THEN last.pre ELSE "-"

(* ------------------------------ GET / --------------------------------- *)

ListPosts(c) ==
    /\ last' = Response("list", c, <<>>, "", "OK", "-", "-",
                        SortNewestFirst(posts))
    /\ UNCHANGED <<admins, users, posts, session, now, inflight>>

(* ------------------------------ POST /login --------------------------- *)

\* a login that gives every account the role "admin"
LoginOutcomeAdminRole(adminList, userList, email, password, sess) ==
    LET ai == FindByEmail(adminList, email)
        ui == FindByEmail(userList, email)
        list == IF ai # 0 THEN adminList ELSE userList
        i == IF ai # 0 THEN ai ELSE ui
    IN
    IF i = 0 THEN [status |-> "InvalidCredentials", user |-> sess]
    ELSE IF list[i].password_hash = NoHash
    THEN [status |-> "AdminNotConfigured", user |-> sess]
    ELSE IF ~IsString(password)
    THEN [status |-> "ServerError", user |-> sess]
    ELSE IF ~BcryptCompare(password[1], list[i].password_hash)
    THEN [status |-> "InvalidCredentials", user |-> sess]
    ELSE [status |-> "OK",
          user |-> Some([email |-> email[1], name |-> list[i].name,
                         role |-> "admin"])]

\* outcome of the handler: the response status and the value of req.session.user
\* after it.  bcrypt.compare rejects ("Illegal arguments") when the password is
\* not a string; the handler does not catch it.
LoginOutcome(adminList, userList, email, password, sess) ==
    LET ai == FindByEmail(adminList, email)
        ui == FindByEmail(userList, email)
    IN
    IF ai # 0 THEN
        IF adminList[ai].password_hash = NoHash
        THEN [status |-> "AdminNotConfigured", user |-> sess]
        ELSE IF ~IsString(password)
        THEN [status |-> "ServerError", user |-> sess]
        ELSE IF ~BcryptCompare(password[1], adminList[ai].password_hash)
        THEN [status |-> "InvalidCredentials", user |-> sess]
        ELSE [status |-> "OK",
              user |-> Some([email |-> email[1],
                             name |-> IF adminList[ai].name # ""
                                      THEN adminList[ai].name ELSE "Admin",
                             role |-> "admin"])]
    ELSE IF ui = 0
    THEN [status |-> "InvalidCredentials", user |-> sess]
    ELSE IF ~IsString(password)
    THEN [status |-> "ServerError", user |-> sess]
    ELSE IF ~BcryptCompare(password[1], userList[ui].password_hash)
    THEN [status |-> "InvalidCredentials", user |-> sess]
    ELSE [status |-> "OK",
          user |-> Some([email |-> email[1],
                         name |-> IF userList[ui].name # ""
                                  THEN userList[ui].name ELSE Head(email[1]),
                         role |-> "user"])]

Login(c, email, password) ==
    LET out == LoginOutcome(admins, users, email, password, session[c]) IN
    /\ session' = [session EXCEPT ![c] = out.user]
    /\ last' = Plain("login", c, [email |-> email, password |-> password],
                     out.status)
    /\ UNCHANGED <<admins, users, posts, now, inflight>>

(* ------------------------------ POST /logout -------------------------- *)

\* a logout that redirects without destroying the session
LogoutKeepsSession(c) ==
    /\ last' = Plain("logout", c, <<>>, "OK")
    /\ UNCHANGED <<admins, users, posts, session, now, inflight>>

\* req.session.destroy
Logout(c) ==
    /\ session' = [session EXCEPT ![c] = None]
    /\ last' = Plain("logout", c, <<>>, "OK")
    /\ UNCHANGED <<admins, users, posts, now, inflight>>

\* cookie maxAge: the session of a client lapses
Expire(c) ==
    /\ session[c] # None
    /\ session' = [session EXCEPT ![c] = None]
    /\ UNCHANGED <<admins, users, posts, now, last, inflight>>

(* ------------------------------ POST /signup -------------------------- *)

\* a duplicate check that forgets admins.json
EmailTakenByUser(adminList, userList, email) == FindByEmail(userList, email) # 0

\* line 134: admins.some(...) || users.some(...)
EmailTaken(adminList, userList, email) ==
    FindByEmail(adminList, email) # 0 \/ FindByEmail(userList, email) # 0

\* a duplicate check whose refusal does not return: the record is pushed anyway
SignupOutcomeNoReturn(adminList, userList, body, salt, t) ==
    IF ~TruthyEmail(body.email) \/ ~TruthyStr(body.password)
    THEN [status |-> "MissingFields", users |-> userList]
    ELSE [status |-> IF EmailTaken(adminList, userList, body.email)
                     THEN "DuplicateEmail" ELSE "OK",
          users |-> Append(userList,
                       [name |-> IF TruthyStr(body.name) THEN body.name[1] ELSE "",
                        email |-> body.email[1],
                        password_hash |-> BcryptHash(body.password[1], salt),
                        createdAt |-> ToISOString(t)])]

\* outcome of the handler: the response status and users.json after it
SignupOutcome(adminList, userList, body, salt, t) ==
    IF ~TruthyEmail(body.email) \/ ~TruthyStr(body.password)
    THEN [status |-> "MissingFields", users |-> userList]
    ELSE IF EmailTaken(adminList, userList, body.email)
    THEN [status |-> "DuplicateEmail", users |-> userList]
    ELSE [status |-> "OK",
          users |-> Append(userList,
                       [name |-> IF TruthyStr(body.name) THEN body.name[1] ELSE "",
                        email |-> body.email[1],
                        password_hash |-> BcryptHash(body.password[1], salt),
                        createdAt |-> ToISOString(t)])]

\* t is the reading of new Date() should the handler get that far
Signup(c, body, salt, t) ==
    LET out == SignupOutcome(admins, users, body, salt, t) IN
    /\ t >= now
    /\ users' = out.users
    /\ now' = IF out.status = "OK" THEN t ELSE now
    /\ last' = Plain("signup", c, body, out.status)
    /\ UNCHANGED <<admins, posts, session, inflight>>

(* ------------------------------ POST /posts --------------------------- *)

\* a post credited to the shipped admin instead of the session's account
NewPostByAdmin(body, id, user, t) ==
    [id |-> id,
     title |-> PostTitle(body.title),
     content |-> PostContent(body.content),
     authorEmail |-> AdminMail,
     authorName |-> "Admin",
     createdAt |-> ToISOString(t),
     likes |-> <<>>,
     dislikes |-> <<>>]

\* the post object built by the handler
NewPost(body, id, user, t) ==
    [id |-> id,
     title |-> PostTitle(body.title),
     content |-> PostContent(body.content),
     authorEmail |-> user.email,
     authorName |-> user.name,
     createdAt |-> ToISOString(t),
     likes |-> <<>>,
     dislikes |-> <<>>]

\* id is the outcome of nanoid(10), t the reading of new Date()
CreatePost(c, body, id, t) ==
    IF ~isLoggedIn(c)
    THEN /\ last' = Plain("create", c, body, "RedirectLogin")
         /\ UNCHANGED <<admins, users, posts, session, now, inflight>>
    ELSE /\ t >= now
         /\ posts' = Append(posts, NewPost(body, id, session[c][1], t))
         /\ now' = t
         /\ last' = Response("create", c, body, id, "OK", "-", "-", <<>>)
         /\ UNCHANGED <<admins, users, session, inflight>>

(* ------------------------------ DELETE /posts/:id --------------------- *)

\* a check that lets any logged-in account delete
MayDeleteAny(c, post) == isLoggedIn(c)

\* may this session delete this post
MayDelete(c, post) == isAdmin(c) \/ post.authorEmail = session[c][1].email

DeletePost(c, id) ==
    LET idx == FindById(posts, id) IN
    IF ~isLoggedIn(c)
    THEN /\ last' = Response("delete", c, <<>>, id, "RedirectLogin", "-", "-", <<>>)
         /\ UNCHANGED <<admins, users, posts, session, now, inflight>>
    ELSE IF idx = 0
    THEN /\ last' = Response("delete", c, <<>>, id, "NotFound", "-", "-", <<>>)
         /\ UNCHANGED <<admins, users, posts, session, now, inflight>>
    ELSE IF ~MayDelete(c, posts[idx])
    THEN /\ last' = Response("delete", c, <<>>, id, "Forbidden", "-", "-", <<>>)
         /\ UNCHANGED <<admins, users, posts, session, now, inflight>>
    ELSE /\ posts' = Splice(posts, idx)
         /\ last' = Response("delete", c, <<>>, id, "OK", "-", "-", <<>>)
         /\ UNCHANGED <<admins, users, session, now, inflight>>

(* ------------------------------ like / dislike ------------------------ *)

\* a like that is pushed without a look at the array
ToggleLikeAlwaysPush(post, u) ==
    [post EXCEPT !.dislikes = Without(post.dislikes, u),
                 !.likes = Append(post.likes, u)]

\* a like that leaves the dislike in place
ToggleLikeKeepDislike(post, u) ==
    IF Includes(post.likes, u)
    THEN [post EXCEPT !.likes = Without(post.likes, u)]
    ELSE [post EXCEPT !.likes = Append(post.likes, u)]

\* a like that is never taken back
ToggleLikeNoToggle(post, u) ==
    LET cleared == [post EXCEPT !.dislikes = Without(post.dislikes, u)] IN
    IF Includes(cleared.likes, u) THEN cleared
    ELSE [cleared EXCEPT !.likes = Append(cleared.likes, u)]

\* lines 189-194: clear the dislike, then flip the like
ToggleLike(post, u) ==
    LET cleared == [post EXCEPT !.dislikes = Without(post.dislikes, u)] IN
    IF Includes(cleared.likes, u)
    THEN [cleared EXCEPT !.likes = Without(cleared.likes, u)]
    ELSE [cleared EXCEPT !.likes = Append(cleared.likes, u)]

\* a dislike that leaves the like in place
ToggleDislikeKeepLike(post, u) ==
    IF Includes(post.dislikes, u)
    THEN [post EXCEPT !.dislikes = Without(post.dislikes, u)]
    ELSE [post EXCEPT !.dislikes = Append(post.dislikes, u)]

\* lines 207-212: clear the like, then flip the dislike
ToggleDislike(post, u) ==
    LET cleared == [post EXCEPT !.likes = Without(post.likes, u)] IN
    IF Includes(cleared.dislikes, u)
    THEN [cleared EXCEPT !.dislikes = Without(cleared.dislikes, u)]
    ELSE [cleared EXCEPT !.dislikes = Append(cleared.dislikes, u)]

Like(c, id) ==
    LET idx == FindById(posts, id) IN
    IF ~isLoggedIn(c)
    THEN /\ last' = Response("like", c, <<>>, id, "RedirectLogin", "-", "-", <<>>)
         /\ UNCHANGED <<admins, users, posts, session, now, inflight>>
    ELSE IF idx = 0
    THEN /\ last' = Response("like", c, <<>>, id, "NotFound", "-", "-", <<>>)
         /\ UNCHANGED <<admins, users, posts, session, now, inflight>>
    ELSE LET u == session[c][1].email IN
         /\ posts' = [posts EXCEPT ![idx] = ToggleLike(posts[idx], u)]
         /\ last' = Response("like", c, <<>>, id, "OK", Reaction(posts, id, u),
                             Prior("like", c, id), <<>>)
         /\ UNCHANGED <<admins, users, session, now, inflight>>

Dislike(c, id) ==
    LET idx == FindById(posts, id) IN
    IF ~isLoggedIn(c)
    THEN /\ last' = Response("dislike", c, <<>>, id, "RedirectLogin", "-", "-", <<>>)
         /\ UNCHANGED <<admins, users, posts, session, now, inflight>>
    ELSE IF idx = 0
    THEN /\ last' = Response("dislike", c, <<>>, id, "NotFound", "-", "-", <<>>)
         /\ UNCHANGED <<admins, users, posts, session, now, inflight>>
    ELSE LET u == session[c][1].email IN
         /\ posts' = [posts EXCEPT ![idx] = ToggleDislike(posts[idx], u)]
         /\ last' = Response("dislike", c, <<>>, id, "OK", Reaction(posts, id, u),
                             Prior("dislike", c, id), <<>>)
         /\ UNCHANGED <<admins, users, session, now, inflight>>

(* ------------------------------ GET /me ------------------------------- *)

\* res.json(req.session.user || null)
Me(c) ==
    /\ last' = Response("me", c, <<>>, "", "OK", "-", "-", session[c])
    /\ UNCHANGED <<admins, users, posts, session, now, inflight>>

(* ------------------------------ overlapping requests ----------------- *)

\* Each handler awaits readJSON, changes the array it got and awaits
\* writeJSON with the whole array; nothing keeps another request from reading
\* or writing blogs.json in between.  A handler is taken here in two steps:
\* the read with the change made on the array read, and the landing of the
\* write.  The handlers above are the two steps with nothing between them.

\* a readJSON that finds no file whatever is stored
ReadJSONMissing(file) == <<>>

\* readJSON: the parsed content of the file
ReadJSON(file) == file

\* the array the handler of request r passes to writeJSON, having read ps
Written(ps, r) ==
    LET idx == FindById(ps, r.id) IN
    CASE r.op = "create" -> Append(ps, NewPost(r.body, r.id, r.user, r.t))
      [] r.op = "delete" -> Splice(ps, idx)
      [] r.op = "like" ->
            [ps EXCEPT ![idx] = ToggleLike(ps[idx], r.user.email)]
      [] r.op = "dislike" ->
            [ps EXCEPT ![idx] = ToggleDislike(ps[idx], r.user.email)]

\* request r of client c has read blogs.json and made its change; its write
\* is under way.  overlapped: another write has landed since the read.
Read(c, r) ==
    LET ps == ReadJSON(posts) IN
    /\ isLoggedIn(c)
    /\ inflight[c] = None
    /\ r.op # "create" => FindById(ps, r.id) # 0
    /\ r.op = "delete" => MayDelete(c, ps[FindById(ps, r.id)])
    /\ inflight' = [inflight EXCEPT ![c] =
                       Some([req |-> r, data |-> Written(ps, r),
                             overlapped |-> FALSE])]
    /\ UNCHANGED <<admins, users, posts, session, last>>

CreatePostRead(c, body, id, t) ==
    /\ t >= now
    /\ now' = t
    /\ Read(c, [op |-> "create", id |-> id, body |-> body,
                user |-> session[c][1], t |-> t])

DeletePostRead(c, id) ==
    /\ UNCHANGED now
    /\ Read(c, [op |-> "delete", id |-> id, body |-> <<>>,
                user |-> session[c][1], t |-> now])

LikeRead(c, id) ==
    /\ UNCHANGED now
    /\ Read(c, [op |-> "like", id |-> id, body |-> <<>>,
                user |-> session[c][1], t |-> now])

DislikeRead(c, id) ==
    /\ UNCHANGED now
    /\ Read(c, [op |-> "dislike", id |-> id, body |-> <<>>,
                user |-> session[c][1], t |-> now])

\* the write of client c's request lands: the file is replaced by the array
\* of the request and the client is redirected to /.  The response keeps,
\* as body, the content the write replaced.
WriteJSON(c) ==
    /\ inflight[c] # None
    /\ posts' = inflight[c][1].data
    /\ inflight' =
          [d \in Clients |->
              IF d = c \/ inflight[d] = None THEN None
              ELSE Some([inflight[d][1] EXCEPT !.overlapped = TRUE])]
    /\ last' = [op |-> inflight[c][1].req.op,
                who |-> Some(inflight[c][1].req.user.email),
                req |-> inflight[c][1].req.body,
                id |-> inflight[c][1].req.id,
                status |-> "OK", pre |-> "-", prior |-> "-", body |-> posts]
    /\ UNCHANGED <<admins, users, session, now>>

(* ------------------------------ stored data --------------------------- *)

\* data/admins.json as shipped: one admin whose password hash is not set
ShippedAdmins ==
    << [email |-> AdminMail, password_hash |-> NoHash, name |-> "Admin"] >>

\* data/admins.json with a second admin added whose hash is set (README)
ConfiguredAdmins ==
    ShippedAdmins \o
    << [email |-> RootMail, password_hash |-> BcryptHash("pw1", "s1"), name |-> ""] >>

\* records of data/blogs.json written by earlier POST /posts of Alice and of
\* the configured admin
AlicePost ==
    [id |-> "id2", title |-> <<"a">>, content |-> <<>>,
     authorEmail |-> AliceMail, authorName |-> "Alice",
     createdAt |-> ToISOString(0), likes |-> <<>>, dislikes |-> <<>>]
RootPost ==
    [id |-> "id1", title |-> Untitled, content |-> <<>>,
     authorEmail |-> RootMail, authorName |-> "Admin",
     createdAt |-> ToISOString(0), likes |-> <<>>, dislikes |-> <<>>]

\* records of data/users.json written by earlier signups
Alice ==
    [name |-> "Alice", email |-> AliceMail,
     password_hash |-> BcryptHash("pw1", "s1"), createdAt |-> ToISOString(0)]
Bob ==
    [name |-> "", email |-> BobMail,
     password_hash |-> BcryptHash("pw2", "s2"), createdAt |-> ToISOString(0)]

(* ------------------------------ request inputs ------------------------ *)

\* req.body of POST /login
LoginEmails ==
    {None, Some(AdminMail), Some(RootMail), Some(AliceMail), Some(BobMail)}
Passwords == {None, Some("pw1"), Some("pw2")}

\* req.body of POST /signup
SignupBodies ==
    { [name |-> Some("Alice"), email |-> Some(AliceMail), password |-> Some("pw1")],
      [name |-> Some("Alice"), email |-> Some(AliceMail), password |-> None],
      [name |-> Some(""), email |-> Some(AliceCaps), password |-> Some("pw2")],
      [name |-> None, email |-> Some(BobMail), password |-> Some("pw2")],
      [name |-> Some("Eve"), email |-> Some(RootMail), password |-> Some("pw1")],
      [name |-> Some("Eve"), email |-> Some(AdminMail), password |-> Some("")],
      [name |-> Some("Eve"), email |-> Some(EmptyEmail), password |-> Some("pw1")],
      [name |-> None, email |-> None, password |-> Some("pw1")] }

\* outcomes of bcrypt's random salt and of nanoid(10)
Salts == {"s1", "s2"}
Ids == {"id1", "id2"}

\* req.body of POST /posts
PostBodies ==
    { [title |-> None, content |-> None],
      [title |-> Some(<<" ", " ">>), content |-> Some(<<" ">>)],
      [title |-> Some(<<" ", "a", " ">>), content |-> Some(<<"b", " ">>)] }

(* ------------------------------ workloads ----------------------------- *)

\* A workload is the data the files start with and the bounded sets the
\* requests are drawn from: the clients that send them, e-mails and passwords
\* of logins, signup bodies, bcrypt salts, post bodies, nanoid outcomes, the
\* ids of rated posts, clock readings, and the sizes users.json and blogs.json
\* may grow to.

MaxUsers == 2
MaxPosts == 1
ListMaxPosts == 3
MaxClock == 2
ShelfMaxPosts == 3
OverlapMaxPosts == 2
DraftMaxPosts == 2

\* readings of new Date()
Times == 0..MaxClock

\* signups and logins against the shipped and a configured admin; no posts
AccountsLoad ==
    [clients |-> Clients,
     admins |-> ConfiguredAdmins, users |-> <<>>, posts |-> <<>>,
     emails |-> LoginEmails, passwords |-> Passwords,
     signups |-> SignupBodies, salts |-> Salts,
     bodies |-> {[title |-> None, content |-> None]},
     ids |-> {"id1"}, rated |-> {"id1"},
     times |-> {0}, maxUsers |-> MaxUsers, maxPosts |-> 0]

\* an admin and a user writing, deleting and rating posts
BlogLoad ==
    [clients |-> Clients,
     admins |-> ConfiguredAdmins, users |-> <<Alice>>, posts |-> <<>>,
     emails |-> {Some(RootMail), Some(AliceMail), Some(BobMail)},
     passwords |-> {Some("pw1"), Some("pw2")},
     signups |-> {b \in SignupBodies : b.email \in {Some(AliceMail), None}},
     salts |-> {"s1"},
     bodies |-> {b \in PostBodies : PostTitle(b.title) = Untitled},
     ids |-> Ids, rated |-> Ids,
     times |-> {0}, maxUsers |-> 1, maxPosts |-> MaxPosts]

\* one user writing three posts at clock readings that may coincide
ListLoad ==
    [clients |-> Clients,
     admins |-> ShippedAdmins, users |-> <<Alice>>, posts |-> <<>>,
     emails |-> {Some(AliceMail)},
     passwords |-> {Some("pw1"), Some("pw2")},
     signups |-> {b \in SignupBodies : b.email = Some(AliceMail)},
     salts |-> {"s1"},
     bodies |-> {[title |-> Some(<<"a">>), content |-> Some(<<"b">>)]},
     ids |-> Ids, rated |-> Ids,
     times |-> Times, maxUsers |-> 1, maxPosts |-> ListMaxPosts]

\* one browser, used by a user and by an admin in turn, deleting, rating and
\* adding to three stored posts
ShelfLoad ==
    [clients |-> {"c1"},
     admins |-> ConfiguredAdmins, users |-> <<Alice>>,
     posts |-> <<RootPost, AlicePost, [AlicePost EXCEPT !.id = "id3"]>>,
     emails |-> {Some(RootMail), Some(AliceMail)},
     passwords |-> {Some("pw1")},
     signups |-> {b \in SignupBodies : b.email = None},
     salts |-> {"s1"},
     bodies |-> {[title |-> None, content |-> None]},
     ids |-> {"id1", "id2", "id3"}, rated |-> {"id2"},
     times |-> {0}, maxUsers |-> 1, maxPosts |-> ShelfMaxPosts]

\* two users signing up, one with a long password, and logging in
RoundTripLoad ==
    [clients |-> Clients,
     admins |-> ShippedAdmins, users |-> <<>>, posts |-> <<>>,
     emails |-> {Some(AliceMail), Some(BobMail)},
     passwords |-> {None, Some("pw1"), Some(Pw72x), Some(Pw72y)},
     signups |-> {[name |-> Some("Alice"), email |-> Some(AliceMail),
                   password |-> Some("pw1")],
                  [name |-> None, email |-> Some(BobMail),
                   password |-> Some(Pw72x)]},
     salts |-> Salts,
     bodies |-> {[title |-> None, content |-> None]},
     ids |-> {"id1"}, rated |-> {"id1"},
     times |-> {0}, maxUsers |-> MaxUsers, maxPosts |-> 0]

\* one browser, used by a user and by an admin in turn, adding posts with
\* titles in need of trimming to one stored post
DraftLoad ==
    [clients |-> {"c1"},
     admins |-> ConfiguredAdmins, users |-> <<Alice>>,
     posts |-> <<RootPost>>,
     emails |-> {Some(RootMail), Some(AliceMail)},
     passwords |-> {Some("pw1")},
     signups |-> {b \in SignupBodies : b.email = None},
     salts |-> {"s1"},
     bodies |-> PostBodies,
     ids |-> Ids, rated |-> {RootPost.id},
     times |-> {0}, maxUsers |-> 1, maxPosts |-> DraftMaxPosts]

\* two users, each at a browser, whose requests on one stored post and on
\* blogs.json overlap
OverlapLoad ==
    [clients |-> Clients,
     logins |-> {<<"c1", Some(AliceMail), Some("pw1")>>,
                 <<"c2", Some(BobMail), Some("pw2")>>,
                 <<"c2", Some(BobMail), Some("pw1")>>},
     admins |-> ShippedAdmins, users |-> <<Alice, Bob>>,
     posts |-> <<AlicePost>>,
     signups |-> {b \in SignupBodies : b.email = None},
     salts |-> {"s1"},
     bodies |-> {[title |-> None, content |-> None]},
     ids |-> {"id1"}, rated |-> {"id2"},
     times |-> {0}, maxUsers |-> 2, maxPosts |-> OverlapMaxPosts]

(* ------------------------------ system -------------------------------- *)

InitOf(W) ==
    /\ admins = W.admins
    /\ users = W.users
    /\ posts = W.posts
    /\ session = [c \in Clients |-> None]
    /\ now = 0
    /\ inflight = [c \in Clients |-> None]
    /\ last = [op |-> "start", who |-> None, req |-> <<>>, id |-> "",
               status |-> "OK", pre |-> "-", prior |-> "-", body |-> <<>>]

NextOf(W) ==
    \/ \E c \in W.clients : ListPosts(c)
    \/ \E c \in W.clients, e \in W.emails, p \in W.passwords : Login(c, e, p)
    \/ \E c \in W.clients : Logout(c)
    \/ \E c \in W.clients : Expire(c)
    \/ \E c \in W.clients, b \in W.signups, s \in W.salts, t \in W.times :
          Signup(c, b, s, t) /\ Len(users') <= W.maxUsers
    \/ \E c \in W.clients, b \in W.bodies, id \in W.ids, t \in W.times :
          CreatePost(c, b, id, t) /\ Len(posts') <= W.maxPosts
    \/ \E c \in W.clients, id \in W.ids : DeletePost(c, id)
    \/ \E c \in W.clients, id \in W.rated : Like(c, id)
    \/ \E c \in W.clients, id \in W.rated : Dislike(c, id)
    \/ \E c \in W.clients : Me(c)

\* logins, and handlers whose read and write are apart
NextOverlapOf(W) ==
    \/ \E l \in W.logins : Login(l[1], l[2], l[3])
    \/ \E c \in W.clients, b \in W.bodies, id \in W.ids, t \in W.times :
          CreatePostRead(c, b, id, t)
          /\ Len(inflight'[c][1].data) <= W.maxPosts
    \/ \E c \in W.clients, id \in W.ids : DeletePostRead(c, id)
    \/ \E c \in W.clients, id \in W.rated : LikeRead(c, id)
    \/ \E c \in W.clients, id \in W.rated : DislikeRead(c, id)
    \/ \E c \in W.clients : WriteJSON(c)

Init == InitOf(BlogLoad)
Next == NextOf(BlogLoad)
Spec == Init /\ [][Next]_vars

SpecAccounts == InitOf(AccountsLoad) /\ [][NextOf(AccountsLoad)]_vars
SpecList == InitOf(ListLoad) /\ [][NextOf(ListLoad)]_vars
SpecShelf == InitOf(ShelfLoad) /\ [][NextOf(ShelfLoad)]_vars
SpecRoundTrip == InitOf(RoundTripLoad) /\ [][NextOf(RoundTripLoad)]_vars
SpecDraft == InitOf(DraftLoad) /\ [][NextOf(DraftLoad)]_vars
SpecOverlap == InitOf(OverlapLoad) /\ [][NextOverlapOf(OverlapLoad)]_vars

(* ------------------------------ properties ---------------------------- *)

\* the e-mail of the account that sent the latest request
LastUser == last.who[1]

\* C1: in every post, no e-mail is in both likes and dislikes, after any
\* sequence of like and dislike requests by any accounts
ReactionsExclusive ==
    \A i \in DOMAIN posts :
        Range(posts[i].likes) \cap Range(posts[i].dislikes) = {}

\* an account that liked a post has just disliked it, while another account's
\* like stands on the same post
ReactionsExclusiveWitness ==
    /\ last.op = "dislike" /\ last.status = "OK" /\ last.pre = "liked"
    /\ \E i \in DOMAIN posts :
          /\ posts[i].id = last.id
          /\ Includes(posts[i].dislikes, LastUser)
          /\ posts[i].likes # <<>>

\* C2: a DELETE /posts/:id whose session is neither an admin's nor that of the
\* post's author removes no such post and leaves blogs.json as it was
DeleteNeedsAuthority ==
    [][last'.op = "delete" =>
       \A c \in Clients, id \in Ids :
          (/\ DeletePost(c, id)
           /\ ~isAdmin(c)
           /\ FindById(posts, id) # 0
           /\ \/ ~isLoggedIn(c)
              \/ posts[FindById(posts, id)].authorEmail # session[c][1].email)
          => posts' = posts]_vars

\* a logged-in user was refused the deletion of a post that is still stored
DeleteNeedsAuthorityWitness ==
    /\ last.op = "delete" /\ last.status = "Forbidden"
    /\ last.who # None
    /\ \E i \in DOMAIN posts :
          posts[i].id = last.id /\ posts[i].authorEmail # LastUser

\* C4 as stated: two likes in a row by one account on one post restore the
\* account's reaction, whether that was none, liked or disliked, and leave it
\* out of dislikes
LikeTwiceRestores ==
    (last.op = "like" /\ last.status = "OK" /\ last.prior # "-")
    => /\ Reaction(posts, last.id, LastUser) = last.prior
       /\ ~Includes(posts[FindById(posts, last.id)].dislikes, LastUser)

\* C4 amended: two likes in a row restore a reaction of none or liked; after a
\* dislike they leave no reaction; in every case the account is out of dislikes
LikeTwiceRestoresUnlessDisliked ==
    (last.op = "like" /\ last.status = "OK" /\ last.prior # "-")
    => /\ last.prior \in {"none", "liked"}
          => Reaction(posts, last.id, LastUser) = last.prior
       /\ last.prior = "disliked"
          => Reaction(posts, last.id, LastUser) = "none"
       /\ ~Includes(posts[FindById(posts, last.id)].dislikes, LastUser)

\* an account that liked a post has liked it twice more and likes it again
LikeTwiceRestoresWitness ==
    /\ last.op = "like" /\ last.status = "OK" /\ last.prior = "liked"
    /\ Includes(posts[FindById(posts, last.id)].likes, LastUser)

\* C5 as stated: after two likes in a row the account is in neither likes
\* nor dislikes of the post
LikeTwiceNetsToNone ==
    (last.op = "like" /\ last.status = "OK" /\ last.prior # "-")
    => LET post == posts[FindById(posts, last.id)] IN
       ~Includes(post.likes, LastUser) /\ ~Includes(post.dislikes, LastUser)

\* C5 amended: the same, for an account that did not like the post before the
\* first of the two calls
LikeTwiceNetsToNoneUnlessLiked ==
    (last.op = "like" /\ last.status = "OK" /\ last.prior \in {"none", "disliked"})
    => LET post == posts[FindById(posts, last.id)] IN
       ~Includes(post.likes, LastUser) /\ ~Includes(post.dislikes, LastUser)

\* an account that disliked a post has liked it twice and has no reaction left
LikeTwiceNetsToNoneWitness ==
    /\ last.op = "like" /\ last.status = "OK" /\ last.prior = "disliked"
    /\ Reaction(posts, last.id, LastUser) = "none"

\* C3: no e-mail occurs twice in admins.json and users.json taken together,
\* after any sequence of signups
EmailsUnique ==
    LET all == admins \o users IN
    \A i, j \in DOMAIN all : i # j => all[i].email # all[j].email

\* a second user has just signed up under an e-mail that differs from the
\* first user's in case only
EmailsUniqueWitness ==
    /\ last.op = "signup" /\ last.status = "OK"
    /\ Len(users) = 2
    /\ {users[1].email, users[2].email} = {AliceMail, AliceCaps}

\* the e-mail field of a request is the e-mail of a stored account
Known(list, email) == \E i \in DOMAIN list : Some(list[i].email) = email

\* the effect of a signup that is accepted
SignupAppends(body) ==
    /\ last'.status = "OK"
    /\ Len(users') = Len(users) + 1
    /\ SubSeq(users', 1, Len(users)) = users
    /\ users'[Len(users')].email = body.email[1]
    /\ admins' = admins /\ posts' = posts /\ session' = session

\* C10 as stated: a signup with the e-mail of an account fails with
\* DuplicateEmail and changes no list; any other signup with non-empty e-mail
\* and password appends one user record with that e-mail and changes nothing else
SignupOutcomes ==
    [][last'.op = "signup" =>
       \A c \in Clients, b \in {last'.req} :
          (\E s \in Salts, t \in Times : Signup(c, b, s, t)) =>
             IF Known(admins, b.email) \/ Known(users, b.email)
             THEN last'.status = "DuplicateEmail"
                  /\ users' = users /\ admins' = admins
             ELSE (TruthyEmail(b.email) /\ TruthyStr(b.password))
                  => SignupAppends(b)]_vars

\* C10 amended: the signup with the e-mail of an account fails with
\* DuplicateEmail when its password is non-empty, and with the missing-field
\* error when the password is empty or absent; the rest as stated
SignupOutcomesByPassword ==
    [][last'.op = "signup" =>
       \A c \in Clients, b \in {last'.req} :
          (\E s \in Salts, t \in Times : Signup(c, b, s, t)) =>
             IF Known(admins, b.email) \/ Known(users, b.email)
             THEN /\ last'.status =
                        IF TruthyStr(b.password) THEN "DuplicateEmail"
                        ELSE "MissingFields"
                  /\ users' = users /\ admins' = admins
             ELSE (TruthyEmail(b.email) /\ TruthyStr(b.password))
                  => SignupAppends(b)]_vars

\* a signup has just been refused as a duplicate while users.json holds a
\* record that an earlier signup appended
SignupOutcomesWitness ==
    /\ last.op = "signup" /\ last.status = "DuplicateEmail"
    /\ Len(users) = 1
    /\ session = [c \in Clients |-> None]

\* the password field of a login matches a stored hash
PasswordMatches(password, hash) ==
    password # None /\ BcryptCompare(password[1], hash)

\* the stored record a login with this e-mail finds: an admin before a user
Account(email) ==
    IF Known(admins, email)
    THEN admins[CHOOSE i \in DOMAIN admins : Some(admins[i].email) = email]
    ELSE users[CHOOSE i \in DOMAIN users : Some(users[i].email) = email]

\* C9: a login fails with InvalidCredentials when the e-mail is in neither
\* list or the password does not match the stored hash, and with
\* AdminNotConfigured when the e-mail is that of an admin without hash; a
\* failed login changes neither the sessions nor the lists; a successful one
\* sets the client's session to exactly {email, name, role}
LoginOutcomes ==
    [][last'.op = "login" =>
       \A c \in Clients :
          LET e == last'.req.email
              p == last'.req.password
          IN
          Login(c, e, p) =>
             /\ IF ~Known(admins, e) /\ ~Known(users, e)
                THEN last'.status = "InvalidCredentials"
                ELSE IF Known(admins, e) /\ Account(e).password_hash = NoHash
                THEN last'.status = "AdminNotConfigured"
                ELSE ~PasswordMatches(p, Account(e).password_hash)
                     => last'.status = "InvalidCredentials"
             /\ last'.status # "OK"
                => session' = session /\ admins' = admins /\ users' = users
             /\ last'.status = "OK"
                => /\ session'[c] # None
                   /\ DOMAIN session'[c][1] = {"email", "name", "role"}
                   /\ session'[c][1].email = e[1]
                   /\ session'[c][1].role =
                         IF Known(admins, e) THEN "admin" ELSE "user"
                   /\ \A d \in Clients \ {c} : session'[d] = session[d]]_vars

\* the part of C9 the code keeps: the same, for a login whose password field
\* is a string
LoginOutcomesForStrings ==
    [][last'.op = "login" =>
       \A c \in Clients :
          LET e == last'.req.email
              p == last'.req.password
          IN
          (p # None /\ Login(c, e, p)) =>
             /\ IF ~Known(admins, e) /\ ~Known(users, e)
                THEN last'.status = "InvalidCredentials"
                ELSE IF Known(admins, e) /\ Account(e).password_hash = NoHash
                THEN last'.status = "AdminNotConfigured"
                ELSE ~PasswordMatches(p, Account(e).password_hash)
                     => last'.status = "InvalidCredentials"
             /\ last'.status # "OK"
                => session' = session /\ admins' = admins /\ users' = users]_vars

RECURSIVE Reverse(_)
Reverse(s) == IF s = <<>> THEN <<>> ELSE Reverse(Tail(s)) \o <<Head(s)>>

\* C6: GET / lists the stored posts latest-created first: blogs.json keeps
\* the posts in the order of their creation, so the listing is its reverse,
\* whatever the clock readings of the creations, equal ones included
ListingNewestFirst == last.op = "list" => last.body = Reverse(posts)

\* what the listing is instead: the stored posts by clock reading, latest
\* first, posts of one reading in the order of their creation
ListingByClock ==
    last.op = "list" =>
       /\ Len(last.body) = Len(posts)
       /\ \A i \in DOMAIN posts :
             Cardinality({k \in DOMAIN posts : posts[k] = posts[i]})
                = Cardinality({k \in DOMAIN posts : last.body[k] = posts[i]})
       /\ \A k, l \in DOMAIN last.body :
             k < l => DateParse(last.body[k].createdAt)
                         >= DateParse(last.body[l].createdAt)
       /\ \A i, j \in DOMAIN posts :
             (i < j /\ posts[i].createdAt = posts[j].createdAt)
             => \E k, l \in DOMAIN posts :
                   k < l /\ last.body[k] = posts[i] /\ last.body[l] = posts[j]

\* the step is a request of client c to one of the four routes behind requireAuth
Sent(c) ==
    \/ last'.op = "create" /\ \E t \in Times : CreatePost(c, last'.req, last'.id, t)
    \/ last'.op = "delete" /\ DeletePost(c, last'.id)
    \/ last'.op = "like" /\ Like(c, last'.id)
    \/ last'.op = "dislike" /\ Dislike(c, last'.id)

\* every post of blogs.json after the step was there before it, or is a new
\* last post whose author is u, or is a post in its place that gained no other
\* e-mail than u in likes and dislikes
WrittenBy(u) ==
    \A i \in DOMAIN posts' :
        \/ \E j \in DOMAIN posts : posts'[i] = posts[j]
        \/ /\ i = Len(posts) + 1
           /\ posts'[i].authorEmail = u
           /\ posts'[i].likes = <<>> /\ posts'[i].dislikes = <<>>
        \/ /\ i <= Len(posts)
           /\ posts'[i].authorEmail = posts[i].authorEmail
           /\ Range(posts'[i].likes) \ Range(posts[i].likes) \subseteq {u}
           /\ Range(posts'[i].dislikes) \ Range(posts[i].dislikes) \subseteq {u}

\* C7: a create, delete, like or dislike request without session is
\* redirected to the login page and leaves blogs.json as it was; whatever
\* changes blogs.json is such a request with a session, and the author or
\* reaction e-mail it writes is that of its session
AuthGuard ==
    [][/\ \A c \in Clients :
             (~isLoggedIn(c) /\ Sent(c))
             => last'.status = "RedirectLogin" /\ posts' = posts
       /\ posts' # posts
          => \E c \in Clients :
                isLoggedIn(c) /\ Sent(c) /\ WrittenBy(session[c][1].email)]_vars

\* a like without session has just been redirected, while a post written and
\* liked under two sessions is stored
AuthGuardWitness ==
    /\ last.op = "like" /\ last.status = "RedirectLogin"
    /\ \E i \in DOMAIN posts :
          /\ posts[i].id = last.id
          /\ posts[i].likes # <<>>
          /\ ~Includes(posts[i].likes, posts[i].authorEmail)

\* C8: a logout leaves the client without session, whatever it had; a client
\* without session gets one only by a successful login of its own; until
\* then GET /me answers null and the four routes behind requireAuth redirect
\* to the login page and change no file
LogoutEndsSession ==
    [][\A c \in Clients :
          /\ (last'.op = "logout" /\ Logout(c)) => session'[c] = None
          /\ (session[c] = None /\ session'[c] # None)
             => /\ last'.op = "login" /\ last'.status = "OK"
                /\ Login(c, last'.req.email, last'.req.password)
          /\ (session[c] = None /\ last'.op = "me" /\ Me(c)) => last'.body = None
          /\ (session[c] = None /\ Sent(c))
             => /\ last'.status = "RedirectLogin"
                /\ posts' = posts /\ users' = users /\ admins' = admins]_vars

\* an account that had a session has just logged out, no session is left, and
\* a post is stored
LogoutEndsSessionWitness ==
    /\ last.op = "logout" /\ last.who # None
    /\ session = [c \in Clients |-> None]
    /\ posts # <<>>

\* no post of blogs.json has this id
NoSuchPost(id) == \A i \in DOMAIN posts : posts[i].id # id

\* C11: a delete, like or dislike request that comes with a session and
\* names an id no stored post has is answered NotFound and leaves blogs.json
\* as it was
NotFoundLeavesPosts ==
    [][last'.op \in {"delete", "like", "dislike"} =>
       \A c \in Clients :
          (isLoggedIn(c) /\ Sent(c) /\ NoSuchPost(last'.id))
          => last'.status = "NotFound" /\ posts' = posts]_vars

\* a like of an account for an id no post has was just answered NotFound,
\* while a post with another id is stored
NotFoundLeavesPostsWitness ==
    /\ last.op = "like" /\ last.status = "NotFound" /\ last.who # None
    /\ posts # <<>>
    /\ NoSuchPost(last.id)

\* the place in blogs.json of the post a request for this id is about: the
\* first post with the id
Stored(id) ==
    CHOOSE i \in DOMAIN posts :
        posts[i].id = id /\ \A j \in 1..(i - 1) : posts[j].id # id

\* C12: a DELETE /posts/:id for a stored post, sent with the session of an
\* admin or of the post's author, removes that post and no other: the posts
\* before it and behind it stay as they were, in their order
AuthorizedDeletion ==
    [][last'.op = "delete" =>
       \A c \in Clients :
          (/\ isLoggedIn(c) /\ DeletePost(c, last'.id)
           /\ ~NoSuchPost(last'.id)
           /\ \/ session[c][1].role = "admin"
              \/ posts[Stored(last'.id)].authorEmail = session[c][1].email)
          => LET i == Stored(last'.id) IN
             /\ last'.status = "OK"
             /\ Len(posts') = Len(posts) - 1
             /\ \A k \in 1..(i - 1) : posts'[k] = posts[k]
             /\ \A k \in i..Len(posts') : posts'[k] = posts[k + 1]]_vars

\* the admin has just deleted the second of three posts, written by a user,
\* and the first and the third are what is stored
AuthorizedDeletionWitness ==
    /\ last.op = "delete" /\ last.status = "OK"
    /\ last.who = Some(RootMail) /\ last.id = AlicePost.id
    /\ Len(posts) = 2
    /\ posts[1].id = "id1" /\ posts[2].id = "id3"

\* the step is a login that follows the successful signup of its e-mail
LoginAfterSignup(c) ==
    /\ last.op = "signup" /\ last.status = "OK"
    /\ last'.op = "login" /\ last'.req.email = last.req.email
    /\ Login(c, last'.req.email, last'.req.password)

\* C13: after a successful signup, a login with its e-mail and its password
\* succeeds and gives the client a session with that e-mail and role "user";
\* a login with its e-mail and another password fails and gives no session
SignupLoginRoundTrip ==
    [][\A c \in Clients :
          LoginAfterSignup(c) =>
             IF last'.req.password = last.req.password
             THEN /\ last'.status = "OK"
                  /\ session'[c] # None
                  /\ session'[c][1].email = last.req.email[1]
                  /\ session'[c][1].role = "user"
             ELSE /\ last'.status # "OK"
                  /\ session'[c] = session[c]]_vars

\* what holds instead: the login succeeds when the two passwords agree on
\* their first 72 bytes, and fails otherwise
SignupLoginRoundTrip72 ==
    [][\A c \in Clients :
          LoginAfterSignup(c) =>
             IF /\ last'.req.password # None
                /\ First72(last'.req.password[1]) = First72(last.req.password[1])
             THEN /\ last'.status = "OK"
                  /\ session'[c] # None
                  /\ session'[c][1].email = last.req.email[1]
                  /\ session'[c][1].role = "user"
             ELSE /\ last'.status # "OK"
                  /\ session'[c] = session[c]]_vars

\* C14: a request that reads blogs.json while the write of another is under
\* way replaces, when its own write lands, what the other wrote: the change
\* of the request that wrote first can be absent from the store (the state
\* below is reached).  A write that lands with no other write landed since
\* its read adds its request's change to what is stored and loses nothing
NoOverlapNoLoss ==
    [][\A c \in Clients :
          (/\ inflight[c] # None
           /\ ~inflight[c][1].overlapped
           /\ WriteJSON(c))
          => posts' = Written(posts, inflight[c][1].req)]_vars

\* Bob's like has just landed and no request is under way; the content it
\* replaced had Alice's like of the same post, written while Bob's request
\* was between read and write, and the post now has Bob's like alone
NoOverlapNoLossWitness ==
    /\ last.op = "like" /\ last.status = "OK" /\ last.who = Some(BobMail)
    /\ inflight = [c \in Clients |-> None]
    /\ \E i \in DOMAIN posts \cap DOMAIN last.body :
          /\ posts[i].id = last.id /\ last.body[i].id = last.id
          /\ Includes(last.body[i].likes, AliceMail)
          /\ posts[i].likes = <<BobMail>>

\* what overlap breaks: every write that lands adds its change to what is
\* stored
EveryWriteKeepsTheStore ==
    [][\A c \in Clients :
          (inflight[c] # None /\ WriteJSON(c))
          => \A i \in DOMAIN posts :
                (inflight[c][1].req.op # "delete" /\ i \in DOMAIN posts')
                => \A u \in {AliceMail, BobMail} \ {inflight[c][1].req.user.email} :
                      Includes(posts[i].likes, u) => Includes(posts'[i].likes, u)]_vars

\* t is s without the white space at its two ends
IsTrimOf(t, s) ==
    /\ t # <<>> => t[1] # " " /\ t[Len(t)] # " "
    /\ \E a \in 0..Len(s) :
          /\ a + Len(t) <= Len(s)
          /\ SubSeq(s, a + 1, a + Len(t)) = t
          /\ \A k \in DOMAIN s :
                (k <= a \/ k > a + Len(t)) => s[k] = " "

\* the step is a POST /posts of client c, sent with a session; it appends
\* one post to blogs.json, written by the session's account, without
\* reactions, under the trimmed title or the placeholder, and changes
\* nothing else
CreateAppends(c) ==
    LET p == posts'[Len(posts')]
        title == last'.req.title
    IN
    /\ last'.status = "OK"
    /\ Len(posts') = Len(posts) + 1
    /\ SubSeq(posts', 1, Len(posts)) = posts
    /\ p.authorEmail = session[c][1].email
    /\ p.authorName = session[c][1].name
    /\ p.likes = <<>> /\ p.dislikes = <<>>
    /\ IF title = None \/ IsTrimOf(<<>>, title[1])
       THEN p.title = Untitled
       ELSE IsTrimOf(p.title, title[1])
    /\ admins' = admins /\ users' = users /\ session' = session

\* the step is a POST /posts of client c that comes with a session
Creates(c) ==
    /\ last'.op = "create"
    /\ isLoggedIn(c)
    /\ \E t \in Times : CreatePost(c, last'.req, last'.id, t)

Emails == {admins[i].email : i \in DOMAIN admins}
             \cup {users[i].email : i \in DOMAIN users}

\* post q is post p but for the membership of u in likes and dislikes
SameButReactionOf(u, p, q) ==
    /\ q.id = p.id /\ q.title = p.title /\ q.content = p.content
    /\ q.authorEmail = p.authorEmail /\ q.authorName = p.authorName
    /\ q.createdAt = p.createdAt
    /\ \A v \in Emails :
          Some(v) # u =>
             /\ Includes(q.likes, v) <=> Includes(p.likes, v)
             /\ Includes(q.dislikes, v) <=> Includes(p.dislikes, v)

Repeats(arr) == \E i, j \in DOMAIN arr : i # j /\ arr[i] = arr[j]

\* C18: no e-mail occurs more than once in the likes or in the dislikes of a
\* post, after any sequence of like and dislike requests on posts that start
\* without reactions
ReactionsAreSets ==
    \A i \in DOMAIN posts :
        ~Repeats(posts[i].likes) /\ ~Repeats(posts[i].dislikes)

\* an account has just liked, once more after taking its like back, a post
\* that another account likes too
ReactionsAreSetsWitness ==
    /\ last.op = "like" /\ last.status = "OK" /\ last.prior = "liked"
    /\ \E i \in DOMAIN posts :
          /\ posts[i].id = last.id
          /\ Len(posts[i].likes) = 2
          /\ posts[i].likes[2] = LastUser

====
